---- MODULE Spec2Model ----
(***************************************************************************)
(* Chimera Muse: the retry / dead letter queue facility                    *)
(* (integrations/retry_utils.py), the freshness gate (agents/watcher.py),  *)
(* its consumers, and the pipeline command (apps/muse_cli.py).             *)
(*                                                                         *)
(* SpecRetry : one caller of a retry-wrapped operation, attempt by attempt. *)
(* SpecDlq   : concurrent appends to the dead letter queue directory and    *)
(*             the replay process.                                          *)
(* SpecGate  : gate evaluations, the flag file /tmp/watcher_ok, and the    *)
(*             pipeline command.                                           *)
(* SpecFlag  : the same with the flag's readers, the council and the       *)
(*             publisher (agents/council.py, agents/publisher.py).         *)
(* SpecFeeds : check_data_integrity over what the two feeds hold           *)
(*             (integrations/clickhouse_client.py check_data_freshness).   *)
(***************************************************************************)
EXTENDS Integers, Sequences, FiniteSets, TLC

VARIABLES
    \* ---- retry / dead letter queue ----
    clock,        \* value datetime.now() returns to write_to_dlq (abstract ticks)
    pc,           \* per caller: "idle" | "calling" | "sleeping" | "done"
    profile,      \* per caller: the decorator wrapping the operation
    outcomes,     \* per caller: what func did on each attempt so far
    result,       \* per caller: what the decorated call gave its caller
    wakeAt,       \* per caller: clock value from which the backoff sleep is over
    persisted,    \* per caller: write_to_dlq calls of this call that wrote their file
    dropped,      \* per caller: write_to_dlq calls of this call that could not write
    dlq,          \* the files of DLQ_DIR: a set of entries, one per file name
    appended,     \* number of write_to_dlq calls that persisted an entry
    rpc,          \* replay_dlq: "idle" | "loop" | "done"
    rfilter,      \* replay_dlq: operation_filter
    snapshot,     \* replay_dlq: file names in DLQ_DIR when the glob started
    visited,      \* replay_dlq: file names the loop has handled
    replayed,     \* replay_dlq: the counter `replayed`
    failed,       \* replay_dlq: the list `failed` (as a set of file names)
    removed,      \* replay_dlq: entries this replay unlinked
    redelivered,  \* entries for which a redelivery was attempted and succeeded
    quiet,        \* no write_to_dlq persisted since this replay started
    replays,      \* number of replay_dlq calls started
    \* ---- gate and pipeline ----
    nowSec,       \* wall clock, seconds
    flag,         \* /tmp/watcher_ok: <<>> when absent, <<writtenAt>> when present
    lastOp,       \* the operation that ran last; the variables down to `probe`
                  \* (closedSeen apart) hold what that operation gave, and
                  \* their initial values when it gives no such thing
    verdict,      \* status the run_watcher_check of that operation returned
    fsFault,      \* that run_watcher_check hit a status-file I/O error
    stagesRun,    \* the stages the pipeline run called, in order
    stageResults, \* what each of those stage calls did (the watcher stage: its status)
    report,       \* keys of pipeline_results the pipeline run printed
    emitted,      \* the pipeline run printed pipeline_results
    exitCode,     \* exit status of the pipeline run (-1: none)
    advances,     \* number of times the wall clock was moved on
    garbled,      \* the flag file exists and its content is not an ISO timestamp
    lastRead,     \* what the flag reader returned: "none" | "open" | "closed"
    closedSeen,   \* readers that returned False since the flag file was last touched
    agentStatus,  \* status of the generate_episode / publish_episode result
    effects,      \* what that run did: "saved", "inserted", "committed", ...
    probe,        \* the call of a pure function: <<>>, <<arguments>> before the
                  \* call, <<arguments, result>> after it
    \* ---- episodes ----
    episodes,     \* rows of the ClickHouse table episodes, in insertion order
    files,        \* episode files on disk: path -> the council run that wrote it last
    runs,         \* the generate_episode runs: position, scores, series, number
    deploys       \* what each publish_episode() call selected and did, in call order

retryVars == <<clock, pc, profile, outcomes, result, wakeAt, persisted, dropped,
               dlq, appended, rpc, rfilter, snapshot, visited, replayed, failed,
               removed, redelivered, quiet, replays>>
flagVars == <<nowSec, flag, lastOp, verdict, fsFault, stagesRun, stageResults, report,
              emitted,
              exitCode, advances, garbled, lastRead, closedSeen, agentStatus,
              effects, probe>>
storeVars == <<episodes, files, runs, deploys>>
gateVars == <<flagVars, storeVars>>
vars == <<retryVars, gateVars>>

(***************************************************************************)
(* Bounds                                                                  *)
(***************************************************************************)
NumCallers == 2
MaxClock == 2
MaxReplays == 1
MaxAdvances == 3
NumRuns == 2
MaxPublishes == 2

Callers == 1..NumCallers

(***************************************************************************)
(* retry_utils.py: the three decorators                                    *)
(***************************************************************************)
Profiles == {"clickhouse", "api", "datadog"}
Durable == {"clickhouse", "api"}
Errors == {"ConnectionError", "TimeoutError", "ValueError"}
Outcomes == {"ok"} \cup Errors

\* retry=retry_if_exception_type((ConnectionError, TimeoutError))
IsRetryable(err) == err \in {"ConnectionError", "TimeoutError"}

\* stop=stop_after_attempt(n)
ClickhouseAttempts == 3
DatadogAttempts == 2
ApiAttempts == 3
StopAfterAttempt(prof) ==
    CASE prof = "clickhouse" -> ClickhouseAttempts
      [] prof = "datadog" -> DatadogAttempts
      [] prof = "api" -> ApiAttempts

\* operation = f"clickhouse_{func.__name__}" / f"api_{func.__name__}":
\* <<prefix, function name>>
FuncName == "call_tool"
OperationName(prof) == <<prof, FuncName>>

\* Faulty variant of WrapperOutcome: the datadog wrapper re-raises like the
\* durable ones.
WrapperOutcome_Reraise(prof, out) == out

\* What the inner `wrapper` hands to tenacity for one attempt, given what func
\* did: the durable wrappers re-raise (`raise`), the datadog wrapper returns None.
WrapperOutcome(prof, out) ==
    IF out = "ok" THEN "ok"
    ELSE IF prof = "datadog" THEN "None"
    ELSE out

\* Whether the inner `wrapper` calls write_to_dlq for this attempt: the durable
\* wrappers do so in their `except Exception` branch, on every failing attempt
\* (the decorated function is a method: args[0] is self, and
\* hasattr(args[0], '__class__') holds of every object).
WrapperWritesDlq(prof, out) == prof \in Durable /\ out # "ok"

\* Faulty variant of TenacityDecision: the retry predicate is left out, every
\* exception is retried.
TenacityDecision_RetryAny(prof, n, w) ==
    IF w \in {"ok", "None"} THEN "return"
    ELSE IF n >= StopAfterAttempt(prof) THEN "retry_error"
    ELSE "retry"

\* tenacity's decision after attempt number n (1-based) gave w:
\* a normal return ends the call; an exception the predicate rejects is raised as
\* it is; a retryable one is retried until stop_after_attempt, and then wrapped in
\* RetryError (reraise is not set).
TenacityDecision(prof, n, w) ==
    IF w \in {"ok", "None"} THEN "return"
    ELSE IF ~IsRetryable(w) THEN "raise"
    ELSE IF n >= StopAfterAttempt(prof) THEN "retry_error"
    ELSE "retry"

\* The value or exception the decorated call gives its caller.
CallResult(decision, w) ==
    CASE decision = "return" -> w
      [] decision = "raise" -> w
      [] decision = "retry_error" -> "RetryError"
      [] OTHER -> "pending"

(***************************************************************************)
(* retry_utils.py: write_to_dlq                                            *)
(***************************************************************************)
\* dlq_file = DLQ_DIR / f"{operation}_{timestamp}.json"
FileName(op, ts) == <<op, ts>>
NameOf(e) == FileName(e.op, e.ts)
Names(q) == {NameOf(e) : e \in q}

DlqEntry(op, data, err, ts) == [op |-> op, ts |-> ts, data |-> data, error |-> err]

\* open(dlq_file, 'w') + json.dump: a file of the same name is replaced. When the
\* write raises, the `except Exception` branch logs and the queue is as before.
write_to_dlq(q, op, data, err, ts, sinkOk) ==
    IF sinkOk
    THEN {e \in q : NameOf(e) # FileName(op, ts)} \cup {DlqEntry(op, data, err, ts)}
    ELSE q

\* Faulty variant of SinkResult: the error of a failed write leaves write_to_dlq.
SinkResult_Propagates(sinkOk) == IF sinkOk THEN "returns" ELSE "OSError"

\* How write_to_dlq ends: its whole body is inside try / `except Exception`, which
\* logs, so it returns None whether or not the file was written.
SinkResult(sinkOk) == "returns"

\* What leaves the durable wrapper's `except` branch: `raise` re-raises the
\* operation's exception w, unless the write_to_dlq call before it raised
\* (sink # "returns"), in which case that exception leaves instead.
AfterSink(w, sink) == IF sink = "returns" THEN w ELSE sink

(***************************************************************************)
(* Initial state                                                           *)
(***************************************************************************)
RetryInit ==
    /\ clock = 0
    /\ pc = [c \in Callers |-> "idle"]
    /\ profile = [c \in Callers |-> "api"]
    /\ outcomes = [c \in Callers |-> <<>>]
    /\ result = [c \in Callers |-> "pending"]
    /\ wakeAt = [c \in Callers |-> 0]
    /\ persisted = [c \in Callers |-> 0]
    /\ dropped = [c \in Callers |-> 0]
    /\ dlq = {}
    /\ appended = 0
    /\ rpc = "idle"
    /\ rfilter = ""
    /\ snapshot = {}
    /\ visited = {}
    /\ replayed = 0
    /\ failed = {}
    /\ removed = {}
    /\ redelivered = {}
    /\ quiet = TRUE
    /\ replays = 0

\* Every gate-side and episode variable but probe, as after construction.
GateStart ==
    /\ nowSec = 0
    /\ flag = <<>>
    /\ lastOp = "none"
    /\ verdict = "none"
    /\ fsFault = FALSE
    /\ stagesRun = <<>>
    /\ stageResults = <<>>
    /\ report = <<>>
    /\ emitted = FALSE
    /\ exitCode = -1
    /\ advances = 0
    /\ garbled = FALSE
    /\ lastRead = "none"
    /\ closedSeen = {}
    /\ agentStatus = "none"
    /\ effects = {}
    /\ episodes = <<>>
    /\ files = {}
    /\ runs = [r \in 1..NumRuns |->
                 [pc |-> "idle", ts |-> 0, confidence_score |-> <<0, 1>>,
                  correlation_strength |-> <<0, 1>>, series |-> "", episode_num |-> 0]]
    /\ deploys = <<>>

GateInit == GateStart /\ probe = <<>>

Init == RetryInit /\ GateInit

(***************************************************************************)
(* A caller of a decorated operation                                       *)
(***************************************************************************)
\* The caller enters the decorated function.
StartCall(c, prof) ==
    /\ UNCHANGED gateVars
    /\ pc[c] = "idle"
    /\ pc' = [pc EXCEPT ![c] = "calling"]
    /\ profile' = [profile EXCEPT ![c] = prof]
    /\ UNCHANGED <<clock, outcomes, result, wakeAt, persisted, dropped, dlq,
                   appended, rpc, rfilter, snapshot, visited, replayed, failed,
                   removed, redelivered, quiet, replays>>

\* One attempt: tenacity calls `wrapper`, which calls func (doing `out`), handles
\* its exception (write_to_dlq, with the sink persisting or not), and tenacity
\* decides what follows.
Attempt(c, out, sinkOk) ==
    /\ UNCHANGED gateVars
    /\ pc[c] = "calling"
    /\ LET prof == profile[c]
           n == Len(outcomes[c]) + 1
           writes == WrapperWritesDlq(prof, out)
           w == IF writes
                THEN AfterSink(WrapperOutcome(prof, out), SinkResult(sinkOk))
                ELSE WrapperOutcome(prof, out)
           d == TenacityDecision(prof, n, w)
       IN  /\ outcomes' = [outcomes EXCEPT ![c] = Append(@, out)]
           /\ dlq' = IF writes
                     THEN write_to_dlq(dlq, OperationName(prof), c, out, clock, sinkOk)
                     ELSE dlq
           /\ persisted' = [persisted EXCEPT ![c] = IF writes /\ sinkOk THEN @ + 1 ELSE @]
           /\ dropped' = [dropped EXCEPT ![c] = IF writes /\ ~sinkOk THEN @ + 1 ELSE @]
           /\ appended' = IF writes /\ sinkOk THEN appended + 1 ELSE appended
           /\ quiet' = IF writes /\ sinkOk THEN FALSE ELSE quiet
           \* an attempt that calls no write_to_dlq meets no sink
           /\ (writes \/ sinkOk)
           /\ result' = [result EXCEPT ![c] = CallResult(d, w)]
           /\ pc' = [pc EXCEPT ![c] = IF d = "retry" THEN "sleeping" ELSE "done"]
           \* wait=wait_exponential(min=1 or 2): the sleep outlasts a clock tick
           /\ wakeAt' = [wakeAt EXCEPT ![c] = IF d = "retry" THEN clock + 1 ELSE @]
    /\ UNCHANGED <<clock, profile, rpc, rfilter, snapshot, visited, replayed, failed,
                   removed, redelivered, replays>>

\* The backoff sleep is over: tenacity makes the next attempt.
Wake(c) ==
    /\ UNCHANGED gateVars
    /\ pc[c] = "sleeping"
    /\ clock >= wakeAt[c]
    /\ pc' = [pc EXCEPT ![c] = "calling"]
    /\ UNCHANGED <<clock, profile, outcomes, result, wakeAt, persisted, dropped,
                   dlq, appended, rpc, rfilter, snapshot, visited, replayed, failed,
                   removed, redelivered, quiet, replays>>

\* The clock datetime.now() reads moves on.
Tick ==
    /\ UNCHANGED gateVars
    /\ clock < MaxClock
    /\ clock' = clock + 1
    /\ UNCHANGED <<pc, profile, outcomes, result, wakeAt, persisted, dropped,
                   dlq, appended, rpc, rfilter, snapshot, visited, replayed, failed,
                   removed, redelivered, quiet, replays>>

(***************************************************************************)
(* retry_utils.py: replay_dlq                                              *)
(***************************************************************************)
Filters == {"", "api", "clickhouse"}

\* `if operation_filter and operation_filter not in operation: continue`
\* (None and "" select everything; the substring test is made on the two parts
\* of the operation name).
Selected(f, op) == f = "" \/ f = op[1] \/ f = op[2]

\* Lines 148-151: the redelivery replay_dlq attempts for an entry before it
\* unlinks the file. The code logs and attempts none ("TODO: Add actual replay
\* logic"), so no entry is ever redelivered.
Redeliver(e) == {}

\* Faulty variant of Unlinks: the file is unlinked whether or not it was read
\* and selected.
Unlinks_BeforeRead(f, e, readOk, unlinkOk) == unlinkOk

\* Whether the loop body unlinks the file it is at: the entry was read, it is
\* selected by the filter, and unlink() did not raise.
Unlinks(f, e, readOk, unlinkOk) == readOk /\ Selected(f, e.op) /\ unlinkOk

\* Whether the loop body ends in `except Exception` (failed.append).
Fails(f, e, readOk, unlinkOk) == ~readOk \/ (Selected(f, e.op) /\ ~unlinkOk)

\* replay_dlq(operation_filter) is called: DLQ_DIR.glob("*.json") lists the
\* directory.
ReplayStart(f) ==
    /\ UNCHANGED gateVars
    /\ rpc # "loop"
    /\ replays < MaxReplays
    /\ rpc' = "loop"
    /\ rfilter' = f
    /\ snapshot' = Names(dlq)
    /\ visited' = {}
    /\ replayed' = 0
    /\ failed' = {}
    /\ removed' = {}
    /\ quiet' = TRUE
    /\ replays' = replays + 1
    /\ UNCHANGED <<clock, pc, profile, outcomes, result, wakeAt, persisted, dropped,
                   dlq, appended, redelivered>>

\* One iteration of the loop, for the file `name`: open + json.load (readOk), the
\* filter, the redelivery, unlink (unlinkOk), the counters.
ReplayStep(name, readOk, unlinkOk) ==
    /\ UNCHANGED gateVars
    /\ rpc = "loop"
    /\ name \in snapshot \ visited
    /\ visited' = visited \cup {name}
    /\ IF name \notin Names(dlq)
       THEN \* open() raises FileNotFoundError
            /\ failed' = failed \cup {name}
            /\ UNCHANGED <<dlq, replayed, removed, redelivered>>
       ELSE LET e == CHOOSE x \in dlq : NameOf(x) = name
            IN  /\ redelivered' = IF readOk /\ Selected(rfilter, e.op)
                                  THEN redelivered \cup Redeliver(e)
                                  ELSE redelivered
                /\ dlq' = IF Unlinks(rfilter, e, readOk, unlinkOk) THEN dlq \ {e} ELSE dlq
                /\ removed' = IF Unlinks(rfilter, e, readOk, unlinkOk)
                              THEN removed \cup {e} ELSE removed
                /\ replayed' = IF Unlinks(rfilter, e, readOk, unlinkOk)
                               THEN replayed + 1 ELSE replayed
                /\ failed' = IF Fails(rfilter, e, readOk, unlinkOk)
                             THEN failed \cup {name} ELSE failed
    /\ UNCHANGED <<clock, pc, profile, outcomes, result, wakeAt, persisted, dropped,
                   appended, rpc, rfilter, snapshot, quiet, replays>>

\* The loop is over: the counts are logged and `replayed` is returned.
ReplayFinish ==
    /\ UNCHANGED gateVars
    /\ rpc = "loop"
    /\ snapshot \subseteq visited
    /\ rpc' = "done"
    /\ UNCHANGED <<clock, pc, profile, outcomes, result, wakeAt, persisted, dropped,
                   dlq, appended, rfilter, snapshot, visited, replayed, failed,
                   removed, redelivered, quiet, replays>>

\* What replay_dlq reports when it ends.
ReplayReport == [succeeded |-> replayed, failed |-> Cardinality(failed)]

(***************************************************************************)
(* Specifications                                                          *)
(***************************************************************************)
\* One caller, every outcome of func, every profile.
RetryNext ==
    \/ \E prof \in Profiles : StartCall(1, prof)
    \/ \E out \in Outcomes, sinkOk \in BOOLEAN : Attempt(1, out, sinkOk)
    \/ Wake(1)
    \/ Tick

SpecRetry == Init /\ [][RetryNext]_vars

\* Concurrent callers of durable operations that fail (each with an error that is
\* not retried, so each call appends once), and the replay process.
DlqNext ==
    \/ \E c \in Callers, prof \in Durable : StartCall(c, prof)
    \/ \E c \in Callers, out \in {"ValueError"}, sinkOk \in BOOLEAN :
          Attempt(c, out, sinkOk)
    \/ Tick
    \/ \E f \in Filters : ReplayStart(f)
    \/ \E name \in snapshot, readOk \in BOOLEAN, unlinkOk \in BOOLEAN :
          ReplayStep(name, readOk, unlinkOk)
    \/ ReplayFinish

SpecDlq == Init /\ [][DlqNext]_vars

(***************************************************************************)
(* agents/watcher.py: the freshness gate                                   *)
(***************************************************************************)
PassVerdicts == {"valid", "degraded"}
MaxHeartsLag == 300
MaxPacksLag == 5400
LagSentinel == 999999
TtlMinutes == 30

\* What a feed's table holds for the commit: COUNT(*) and MAX(ts); last_ts is <<>>
\* when there is no row (COALESCE gives the epoch), <<t>> otherwise. Times are
\* seconds on the scale of nowSec, whose origin is arbitrary.
Ages == {10, 1000, 5401}
RowCounts == {1, 2}
NoRows == [rows |-> 0, last_ts |-> <<>>]
Feeds(now, counts, ages) ==
    {NoRows} \cup {[rows |-> n, last_ts |-> <<now - a>>] : n \in counts, a \in ages}

Max(a, b) == IF a >= b THEN a ELSE b

\* ClickHouseClient.check_data_freshness: (hearts_rows, packs_rows, lag_seconds).
\* Each feed's lag is now - last_ts, or 999999 when last_ts is the epoch; the lag
\* returned is the larger of the two. A failing query gives (0, 0, 999999).
check_data_freshness(hearts, packs, now, queryOk) ==
    IF ~queryOk THEN <<0, 0, LagSentinel>>
    ELSE LET hearts_lag == IF hearts.last_ts # <<>>
                           THEN now - hearts.last_ts[1] ELSE LagSentinel
             packs_lag == IF packs.last_ts # <<>>
                          THEN now - packs.last_ts[1] ELSE LagSentinel
         IN  <<hearts.rows, packs.rows, Max(hearts_lag, packs_lag)>>

\* Faulty variant of check_data_integrity: one threshold exceeded is enough.
check_data_integrity_EitherThreshold(hearts_rows, packs_rows, lag_seconds, allow_degraded) ==
    IF hearts_rows = 0 /\ allow_degraded THEN "degraded"
    ELSE IF hearts_rows = 0 THEN "missing_hearts"
    ELSE IF packs_rows = 0 /\ allow_degraded THEN "degraded"
    ELSE IF packs_rows = 0 THEN "missing_packs"
    ELSE IF lag_seconds > MaxHeartsLag \/ lag_seconds > MaxPacksLag THEN "lag_exceeded"
    ELSE "valid"

\* check_data_integrity: the status for the row counts and the lag that
\* ClickHouseClient.check_data_freshness returned.
check_data_integrity(hearts_rows, packs_rows, lag_seconds, allow_degraded) ==
    IF hearts_rows = 0 /\ allow_degraded THEN "degraded"
    ELSE IF hearts_rows = 0 THEN "missing_hearts"
    ELSE IF packs_rows = 0 /\ allow_degraded THEN "degraded"
    ELSE IF packs_rows = 0 THEN "missing_packs"
    ELSE IF lag_seconds > MaxHeartsLag /\ lag_seconds > MaxPacksLag THEN "lag_exceeded"
    ELSE "valid"

\* Faulty variant of update_status_file: the time is written whatever the status.
update_status_file_AlwaysWrites(f, status, now, fsOk) == IF fsOk THEN <<now>> ELSE f

\* update_status_file: write the time into the flag file on valid/degraded, remove
\* the file otherwise. An I/O error (fsOk = FALSE) is caught and logged, and the
\* file is as it was.
update_status_file(f, status, now, fsOk) ==
    IF status \in PassVerdicts
    THEN IF fsOk THEN <<now>> ELSE f
    ELSE IF f # <<>> /\ fsOk THEN <<>> ELSE f

\* Whether run_watcher_check returns from the branch of lines 171-182: the commit
\* lookup gave an empty commit and allow_degraded is off.
ReturnsEarly(in) == ~in.commitsOk /\ ~in.allow_degraded

\* What check_data_integrity gets from self.clickhouse.check_data_freshness.
Freshness(in) == check_data_freshness(in.hearts, in.packs, in.now, in.queryOk)

\* The status run_watcher_check returns for the inputs `in`.
WatcherStatus(in) ==
    IF in.commitsOk
    THEN check_data_integrity(Freshness(in)[1], Freshness(in)[2], Freshness(in)[3],
                              in.allow_degraded)
    ELSE IF in.allow_degraded THEN "degraded" ELSE "error"

\* The flag file after run_watcher_check: the early return comes before the call
\* of update_status_file.
FlagAfterCheck(f, in, now) ==
    IF ReturnsEarly(in) THEN f
    ELSE update_status_file(f, WatcherStatus(in), now, in.fsOk)

\* Whether run_watcher_check writes or removes the flag file.
TouchesFlag(f, in) ==
    /\ ~ReturnsEarly(in)
    /\ in.fsOk
    /\ (WatcherStatus(in) \in PassVerdicts \/ f # <<>>)

\* is_watcher_ok: the file exists and age_minutes = seconds / 60 < 30.
is_watcher_ok(f, now) == f # <<>> /\ (now - f[1]) < TtlMinutes * 60

\* What one evaluation at time `now` meets: the commit lookup, the two feed
\* queries (queryOk: they did not raise) and what the feeds hold, the
\* WATCHER_ALLOW_DEGRADED setting of the process, the flag file's file system.
EvalInputs(now, lookups, queries, heartsFeeds, packsFeeds, fileSystems) ==
    {[commitsOk |-> c, queryOk |-> q, hearts |-> h, packs |-> p,
      allow_degraded |-> a, fsOk |-> f, now |-> now] :
        c \in lookups, q \in queries, h \in heartsFeeds, p \in packsFeeds,
        a \in BOOLEAN, f \in fileSystems}

\* The evaluations the gate and pipeline specification draws: each feed empty,
\* fresh or stale.
GateInputs(now) ==
    EvalInputs(now, BOOLEAN, BOOLEAN, Feeds(now, {1}, {10, 5401}),
               Feeds(now, {1}, {10, 5401}), BOOLEAN)

\* The evaluations the flag specification draws: the queries succeed, the hearts
\* feed is empty, fresh or stale, the packs feed is fresh.
FlagInputs(now) ==
    EvalInputs(now, BOOLEAN, {TRUE}, Feeds(now, {1}, {10, 5401}),
               {[rows |-> 1, last_ts |-> <<now - 10>>]}, BOOLEAN)

\* The operation that ran gave no verdict / pipeline report / reader result /
\* agent result / integrity result.
NoVerdict == verdict' = "none" /\ fsFault' = FALSE
NoReport ==
    /\ stagesRun' = <<>>
    /\ stageResults' = <<>>
    /\ report' = <<>>
    /\ emitted' = FALSE
    /\ exitCode' = -1
NoRead == lastRead' = "none"
NoAgentResult == agentStatus' = "none" /\ effects' = {}
NoProbe == probe' = <<>>

\* run_watcher_check, called on its own (run_watcher_agent, the watcher command).
WatcherCheck(in) ==
    /\ UNCHANGED <<retryVars, storeVars>>
    /\ flag' = FlagAfterCheck(flag, in, nowSec)
    /\ verdict' = WatcherStatus(in)
    /\ fsFault' = (~ReturnsEarly(in) /\ ~in.fsOk)
    /\ lastOp' = "watcher"
    /\ garbled' = (garbled /\ ~TouchesFlag(flag, in))
    /\ closedSeen' = IF TouchesFlag(flag, in) THEN {} ELSE closedSeen
    /\ NoReport /\ NoRead /\ NoAgentResult /\ NoProbe
    /\ UNCHANGED <<nowSec, advances>>

(***************************************************************************)
(* apps/muse_cli.py: the pipeline command                                  *)
(* stage names: watcher (gate), ingest (ingestA), collect (ingestB),       *)
(* council (score), publish, translate                                     *)
(***************************************************************************)
\* What a stage call does: it returns a result whose status is the stage's
\* success status, returns a result with another status, or raises.
CallOutcomes == {"success", "failed", "raise"}
LaterStages == {"ingest", "collect", "council", "publish", "translate"}

\* `except Exception`: "Pipeline failed" is printed and pipeline_results is not.
Crashed(called, keys) == [stages |-> called, keys |-> keys, emitted |-> FALSE, exit |-> 1]
\* Faulty variant of Stopped: the run does not stop, the remaining stages are
\* called.
Stopped_RunsOn(called) ==
    [stages |-> <<"watcher", "ingest", "collect", "council", "publish", "translate">>,
     keys |-> <<"watcher", "ingest", "collect", "council", "publish", "translate">>,
     emitted |-> TRUE, exit |-> 0]

\* Faulty variant of Stopped: the run stops with exit status 0.
Stopped_ExitZero(called) == [stages |-> called, keys |-> called, emitted |-> TRUE, exit |-> 0]

\* "Pipeline stopped": pipeline_results is printed, exit status 1.
Stopped(called) == [stages |-> called, keys |-> called, emitted |-> TRUE, exit |-> 1]
\* "Pipeline completed successfully": pipeline_results is printed, exit status 0.
Completed(called) == [stages |-> called, keys |-> called, emitted |-> TRUE, exit |-> 0]

\* Faulty variant of GateLetsThrough: the run goes on whatever the watcher
\* returned.
GateLetsThrough_Any(status) == TRUE

\* `if watcher_result.get("status") != "ok"`: whether the run goes on after the
\* watcher stage.
GateLetsThrough(status) == status = "ok"

\* The body of pipeline() from the watcher's result on: st gives what each later
\* stage call does.
pipeline(setupOk, gateStatus, st) ==
    IF ~setupOk THEN Crashed(<<>>, <<>>)
    ELSE IF ~GateLetsThrough(gateStatus) THEN Stopped(<<"watcher">>)
    ELSE IF st.ingest = "raise"
         THEN Crashed(<<"watcher", "ingest">>, <<"watcher">>)
    ELSE IF st.collect = "raise"
         THEN Crashed(<<"watcher", "ingest", "collect">>, <<"watcher", "ingest">>)
    ELSE IF st.council = "raise"
         THEN Crashed(<<"watcher", "ingest", "collect", "council">>,
                      <<"watcher", "ingest", "collect">>)
    ELSE IF st.council # "success"
         THEN Stopped(<<"watcher", "ingest", "collect", "council">>)
    ELSE IF st.publish = "raise"
         THEN Crashed(<<"watcher", "ingest", "collect", "council", "publish">>,
                      <<"watcher", "ingest", "collect", "council">>)
    ELSE IF st.publish # "success"
         THEN Stopped(<<"watcher", "ingest", "collect", "council", "publish">>)
    ELSE IF st.translate = "raise"
         THEN Crashed(<<"watcher", "ingest", "collect", "council", "publish", "translate">>,
                      <<"watcher", "ingest", "collect", "council", "publish">>)
    ELSE Completed(<<"watcher", "ingest", "collect", "council", "publish", "translate">>)

\* What the call of a stage did: the watcher stage returns run_watcher_check's
\* status, a later stage does st[stage].
StageOutcome(stage, gateStatus, st) == IF stage = "watcher" THEN gateStatus ELSE st[stage]

\* The later stages' outcomes to draw: none when no later stage is called.
StageInputs(setupOk, gateStatus) ==
    IF setupOk /\ GateLetsThrough(gateStatus)
    THEN [LaterStages -> CallOutcomes]
    ELSE {[x \in LaterStages |-> "success"]}

\* One run of the pipeline command: the clients and agents are built (setupOk),
\* the watcher stage runs run_watcher_check, the later stages follow.
Pipeline(setupOk, in) ==
    /\ UNCHANGED <<retryVars, storeVars>>
    /\ \E st \in StageInputs(setupOk, WatcherStatus(in)) :
        LET r == pipeline(setupOk, WatcherStatus(in), st)
        IN  /\ flag' = IF setupOk THEN FlagAfterCheck(flag, in, nowSec) ELSE flag
            /\ verdict' = IF setupOk THEN WatcherStatus(in) ELSE "none"
            /\ fsFault' = (setupOk /\ ~ReturnsEarly(in) /\ ~in.fsOk)
            /\ lastOp' = "pipeline"
            /\ stagesRun' = r.stages
            /\ stageResults' = [i \in 1..Len(r.stages) |->
                                   StageOutcome(r.stages[i], WatcherStatus(in), st)]
            /\ report' = r.keys
            /\ emitted' = r.emitted
            /\ exitCode' = r.exit
            /\ garbled' = (garbled /\ ~(setupOk /\ TouchesFlag(flag, in)))
            /\ closedSeen' = IF setupOk /\ TouchesFlag(flag, in) THEN {} ELSE closedSeen
            /\ NoRead /\ NoAgentResult /\ NoProbe
            /\ UNCHANGED <<nowSec, advances>>

\* Time passes.
TimeSteps == {1, 1798}
AdvanceTime(d) ==
    /\ UNCHANGED <<retryVars, storeVars>>
    /\ advances < MaxAdvances
    /\ advances' = advances + 1
    /\ nowSec' = nowSec + d
    /\ lastOp' = "advance"
    /\ NoVerdict /\ NoReport /\ NoRead /\ NoAgentResult /\ NoProbe
    /\ UNCHANGED <<flag, garbled, closedSeen>>

(***************************************************************************)
(* The flag file's readers                                                 *)
(***************************************************************************)
Readers == {"is_watcher_ok", "check_watcher_status"}

\* The flag file's content is overwritten or truncated by something other than
\* update_status_file: fromisoformat() of it raises from now on.
DamageFlag ==
    /\ UNCHANGED <<retryVars, storeVars>>
    /\ flag # <<>>
    /\ ~garbled
    /\ garbled' = TRUE
    /\ closedSeen' = {}
    /\ lastOp' = "damage"
    /\ NoVerdict /\ NoReport /\ NoRead /\ NoAgentResult /\ NoProbe
    /\ UNCHANGED <<nowSec, flag, advances>>

\* WatcherAgent.is_watcher_ok on a file that may be unreadable: the
\* `except Exception` branch returns False.
IsWatcherOk(f, bad, now) == IF f # <<>> /\ bad THEN FALSE ELSE is_watcher_ok(f, now)

\* CouncilAgent.status_file is Path(os.getenv('TEMP', '/tmp')) / "watcher_ok":
\* the watcher's /tmp/watcher_ok when TEMP is unset or /tmp, otherwise a file that
\* nothing writes.
CouncilFlag(f, tempIsTmp) == IF tempIsTmp THEN f ELSE <<>>

\* Faulty variant of check_watcher_status: the age is not looked at.
check_watcher_status_NoTtl(f, bad, now) == f # <<>> /\ ~bad

\* CouncilAgent.check_watcher_status: False when the file does not exist, when
\* reading it raises, and when age_minutes > 30.
check_watcher_status(f, bad, now) ==
    IF f = <<>> THEN FALSE
    ELSE IF bad THEN FALSE
    ELSE IF (now - f[1]) > TtlMinutes * 60 THEN FALSE
    ELSE TRUE

\* What reader r returns in the current state.
ReaderResult(r, tempIsTmp) ==
    IF r = "is_watcher_ok"
    THEN IsWatcherOk(flag, garbled, nowSec)
    ELSE check_watcher_status(CouncilFlag(flag, tempIsTmp), garbled, nowSec)

\* Whether this call of reader r looks at the watcher's flag file.
ReadsGateFlag(r, tempIsTmp) == r = "is_watcher_ok" \/ tempIsTmp

\* A process calls one of the two readers.
ReadFlag(r, tempIsTmp) ==
    /\ UNCHANGED <<retryVars, storeVars>>
    /\ lastRead' = IF ReaderResult(r, tempIsTmp) THEN "open" ELSE "closed"
    /\ closedSeen' = IF ReadsGateFlag(r, tempIsTmp) /\ ~ReaderResult(r, tempIsTmp)
                     THEN closedSeen \cup {r} ELSE closedSeen
    /\ lastOp' = IF ReadsGateFlag(r, tempIsTmp) THEN r ELSE "read_elsewhere"
    /\ NoVerdict /\ NoReport /\ NoAgentResult /\ NoProbe
    /\ UNCHANGED <<nowSec, flag, advances, garbled>>

(***************************************************************************)
(* agents/council.py: generate_episode                                     *)
(***************************************************************************)
\* What a generate_episode run meets: the commit lookup, the correlation query
\* and scoring (analysisOk: none of them raised), save_episode, insert_episode,
\* the telemetry calls after the inserts.
CouncilRuns ==
    [commitsOk : BOOLEAN, analysisOk : BOOLEAN, saveOk : BOOLEAN,
     insertOk : BOOLEAN, telemetryOk : BOOLEAN]

\* The runs to draw: a step that is not reached fails in none of them.
CouncilInputs ==
    {in \in CouncilRuns :
        /\ ~in.commitsOk => in.analysisOk
        /\ ~(in.commitsOk /\ in.analysisOk) => in.saveOk
        /\ ~(in.commitsOk /\ in.analysisOk /\ in.saveOk)
              => (in.insertOk /\ in.telemetryOk)}

\* Faulty variant of generate_episode: the watcher status is not checked.
generate_episode_Ungated(gateOk, in) ==
    IF ~in.commitsOk THEN [status |-> "error", effects |-> {}]
    ELSE IF ~in.analysisOk THEN [status |-> "error", effects |-> {}]
    ELSE IF ~in.saveOk THEN [status |-> "error", effects |-> {}]
    ELSE [status |-> IF in.telemetryOk THEN "success" ELSE "error",
          effects |-> {"saved"} \cup (IF in.insertOk THEN {"inserted"} ELSE {})]

\* generate_episode: the result's status and what the run left behind. The
\* episode file is saved before the record is inserted; insert_episode catches
\* its own errors; an exception of a telemetry call reaches the outer
\* `except Exception`, which returns status "error".
generate_episode(gateOk, in) ==
    IF ~gateOk THEN [status |-> "blocked", effects |-> {}]
    ELSE IF ~in.commitsOk THEN [status |-> "error", effects |-> {}]
    ELSE IF ~in.analysisOk THEN [status |-> "error", effects |-> {}]
    ELSE IF ~in.saveOk THEN [status |-> "error", effects |-> {}]
    ELSE [status |-> IF in.telemetryOk THEN "success" ELSE "error",
          effects |-> {"saved"} \cup (IF in.insertOk THEN {"inserted"} ELSE {})]

\* The council command: one generate_episode run.
Council(tempIsTmp, in) ==
    /\ UNCHANGED <<retryVars, storeVars>>
    /\ LET gateOk == ReaderResult("check_watcher_status", tempIsTmp)
           r == generate_episode(gateOk, in)
       IN  /\ agentStatus' = r.status
           /\ effects' = r.effects
           /\ lastRead' = IF gateOk THEN "open" ELSE "closed"
           /\ closedSeen' = IF tempIsTmp /\ ~gateOk
                            THEN closedSeen \cup {"check_watcher_status"}
                            ELSE closedSeen
    /\ lastOp' = IF tempIsTmp THEN "council" ELSE "council_elsewhere"
    /\ NoVerdict /\ NoReport /\ NoProbe
    /\ UNCHANGED <<nowSec, flag, advances, garbled>>

(***************************************************************************)
(* agents/publisher.py: publish_episode                                    *)
(***************************************************************************)
\* What a publish_episode run meets: the episode record get_episode_to_publish
\* finds ("none", or its status), validate_episode_file, commit_episode,
\* push_to_github, the telemetry calls. trigger_vercel_deploy and
\* wait_for_deployment are mocks that return an id and "ready".
PublishRuns ==
    [episode : {"none", "draft", "published"}, validOk : BOOLEAN,
     commitOk : BOOLEAN, pushOk : BOOLEAN, telemetryOk : BOOLEAN]

\* The runs to draw: a step that is not reached fails in none of them.
PublishInputs ==
    {in \in PublishRuns :
        /\ in.episode # "draft" => in.validOk
        /\ ~(in.episode = "draft" /\ in.validOk) => in.commitOk
        /\ ~(in.episode = "draft" /\ in.validOk /\ in.commitOk) => in.pushOk
        /\ ~(in.episode = "draft" /\ in.validOk /\ in.commitOk /\ in.pushOk)
              => in.telemetryOk}

\* publish_episode: the result's status and what the run did.
publish_episode(in) ==
    IF in.episode = "none" THEN [status |-> "error", effects |-> {}]
    ELSE IF in.episode # "draft" THEN [status |-> "error", effects |-> {}]
    ELSE IF ~in.validOk THEN [status |-> "error", effects |-> {}]
    ELSE IF ~in.commitOk THEN [status |-> "error", effects |-> {}]
    ELSE IF ~in.pushOk THEN [status |-> "error", effects |-> {"committed"}]
    ELSE [status |-> IF in.telemetryOk THEN "success" ELSE "error",
          effects |-> {"committed", "pushed", "deployed", "published"}]

\* The publish command: one publish_episode run.
Publish(in) ==
    /\ UNCHANGED <<retryVars, storeVars>>
    /\ agentStatus' = publish_episode(in).status
    /\ effects' = publish_episode(in).effects
    /\ lastOp' = "publish"
    /\ NoVerdict /\ NoReport /\ NoRead /\ NoProbe
    /\ UNCHANGED <<nowSec, flag, advances, garbled, closedSeen>>

(***************************************************************************)
(* check_data_integrity as a function of what the feeds hold               *)
(***************************************************************************)
\* One call of WatcherAgent.check_data_integrity at the current time.
CheckIntegrity(in) ==
    /\ UNCHANGED <<retryVars, storeVars>>
    /\ probe' = <<in, [fresh |-> Freshness(in),
                       status |-> check_data_integrity(Freshness(in)[1], Freshness(in)[2],
                                                       Freshness(in)[3], in.allow_degraded)]>>
    /\ lastOp' = "integrity"
    /\ NoVerdict /\ NoReport /\ NoRead /\ NoAgentResult
    /\ UNCHANGED <<nowSec, flag, advances, garbled, closedSeen>>

\* The feed states and settings check_data_integrity is called with.
IntegrityInputs(now) ==
    EvalInputs(now, {TRUE}, BOOLEAN, Feeds(now, RowCounts, Ages),
               Feeds(now, RowCounts, Ages), {TRUE})

FeedsNext ==
    \/ \E in \in IntegrityInputs(nowSec) : CheckIntegrity(in)
    \/ \E d \in TimeSteps : AdvanceTime(d)

SpecFeeds == Init /\ [][FeedsNext]_vars

GateNext ==
    \/ \E in \in GateInputs(nowSec) : WatcherCheck(in)
    \/ \E setupOk \in BOOLEAN, in \in GateInputs(nowSec) : Pipeline(setupOk, in)
    \/ \E d \in TimeSteps : AdvanceTime(d)

SpecGate == Init /\ [][GateNext]_vars

\* Gate evaluations, pipeline runs, the passing of time, and the consumers of
\* the flag.
FlagNext ==
    \/ \E in \in FlagInputs(nowSec) : WatcherCheck(in)
    \/ \E d \in TimeSteps : AdvanceTime(d)
    \/ DamageFlag
    \/ \E r \in Readers, tempIsTmp \in BOOLEAN : ReadFlag(r, tempIsTmp)
    \/ \E tempIsTmp \in BOOLEAN, in \in CouncilInputs : Council(tempIsTmp, in)
    \/ \E in \in PublishInputs : Publish(in)
    \/ \E setupOk \in BOOLEAN, in \in FlagInputs(nowSec) : Pipeline(setupOk, in)

SpecFlag == Init /\ [][FlagNext]_vars

(***************************************************************************)
(* The council's scoring: calculate_confidence_score and determine_series  *)
(***************************************************************************)
\* A float is modelled by the exact fraction <<numerator, denominator>> with a
\* positive denominator; comparisons cross-multiply.
Zero == <<0, 1>>
Half == <<1, 2>>
One == <<1, 1>>
FLess(a, b) == a[1] * b[2] < b[1] * a[2]
FEq(a, b) == a[1] * b[2] = b[1] * a[2]
FLeq(a, b) == FLess(a, b) \/ FEq(a, b)
\* Python's min and max keep their first argument unless a later one is
\* strictly smaller (larger).
FMin(a, b) == IF FLess(b, a) THEN b ELSE a
FMax(a, b) == IF FLess(a, b) THEN b ELSE a
Abs(x) == IF x < 0 THEN -x ELSE x

RECURSIVE SeqSum(_)
SeqSum(s) == IF s = <<>> THEN 0 ELSE s[1] + SeqSum(Tail(s))

\* Longest window drawn, in days.
MaxPoints == 8
\* datetime.now().date(), as a day number.
Today == 0
\* Correlations are carried in tenths; <<>> is None.
CorrelationScale == 10
Correlations == {<<>>, <<-10>>, <<5>>, <<10>>}
DailyRows == {0, 40}
\* The day of the newest point of a window: a week old, yesterday, today.
NewestDays == {Today - 8, Today - 1, Today}
PointData == [hearts_rows : DailyRows, packs_rows : DailyRows,
              correlation : Correlations]

\* What get_correlation_data returns: one point per day, newest first.  The
\* first point carries a, the others b; dayless drops the "day" key of the first
\* point.
Window(newest, n, a, b, dayless) ==
    [i \in 1..n |->
        LET data == IF i = 1 THEN a ELSE b
        IN  [day |-> IF i = 1 /\ dayless THEN <<>> ELSE <<newest - (i - 1)>>,
             hearts_rows |-> data.hearts_rows,
             packs_rows |-> data.packs_rows,
             correlation |-> data.correlation]]

Windows ==
    {Window(newest, n, a, b, dayless) :
        newest \in NewestDays, n \in 0..MaxPoints, a \in PointData, b \in PointData,
        dayless \in BOOLEAN}

\* min(1.0, actual_days / expected_days)
completeness(w) == FMin(One, <<Len(w), 7>>)

\* Mean of the absolute correlations that are not None, 0.0 when there is none.
correlation_strength(w) ==
    LET correlations == [i \in 1..Len(SelectSeq(w, LAMBDA p : p.correlation # <<>>)) |->
                            Abs(SelectSeq(w, LAMBDA p : p.correlation # <<>>)[i].correlation[1])]
    IN  IF correlations = <<>> THEN Zero
        ELSE <<SeqSum(correlations), CorrelationScale * Len(correlations)>>

most_recent(w) == CHOOSE d \in {w[i].day[1] : i \in 1..Len(w)} :
                      \A i \in 1..Len(w) : w[i].day[1] <= d
days_old(w) == Today - most_recent(w)

recency_NoFloor(w) == <<7 - days_old(w), 7>>

\* max(0.5, 1.0 - (days_old / 7.0))
recency(w) == FMax(Half, <<7 - days_old(w), 7>>)

\* min(1.0, (total_hearts_rows + total_packs_rows) / expected_rows)
data_quality(w) ==
    FMin(One, <<SeqSum([i \in 1..Len(w) |-> w[i].hearts_rows])
                  + SeqSum([i \in 1..Len(w) |-> w[i].packs_rows]), 70>>)

\* The statements of the try block that raise: point["day"] of a point without
\* that key.
ScoreRaises(w) == \E i \in 1..Len(w) : w[i].day = <<>>

ScoreFailed_Unguarded(w) ==
    [raised |-> TRUE, confidence_score |-> Zero, correlation_strength |-> Zero]

\* The except clause: the error is logged and (0.0, 0.0) returned.
ScoreFailed(w) ==
    [raised |-> FALSE, confidence_score |-> Zero, correlation_strength |-> Zero]

calculate_confidence_score(w) ==
    IF w = <<>>
    THEN [raised |-> FALSE, confidence_score |-> Zero, correlation_strength |-> Zero]
    ELSE IF ScoreRaises(w)
    THEN ScoreFailed(w)
    ELSE [raised |-> FALSE,
          confidence_score |-> FMin(FMin(FMin(completeness(w), correlation_strength(w)),
                                         recency(w)),
                                    data_quality(w)),
          correlation_strength |-> correlation_strength(w)]

\* Scores determine_series is called with, in hundredths.
ScoreGrid == {<<n, 100>> : n \in {0, 59, 60, 61, 69, 70, 71, 100}}

determine_series_EitherScore(confidence_score, strength) ==
    IF FLeq(<<7, 10>>, confidence_score) \/ FLeq(<<6, 10>>, strength)
    THEN "chimera" ELSE "banterpacks"

determine_series(confidence_score, strength) ==
    IF FLeq(<<7, 10>>, confidence_score) /\ FLeq(<<6, 10>>, strength)
    THEN "chimera" ELSE "banterpacks"

\* The calls of the two functions that are drawn.
ScoreCalls ==
    {[fn |-> "calculate_confidence_score", window |-> w] : w \in Windows}
    \cup {[fn |-> "determine_series", confidence_score |-> c, correlation_strength |-> s] :
            c \in ScoreGrid, s \in ScoreGrid}

ScoreInit == RetryInit /\ GateStart /\ probe \in {<<call>> : call \in ScoreCalls}

\* calculate_confidence_score applied to the drawn window.
Score ==
    /\ Len(probe) = 1 /\ probe[1].fn = "calculate_confidence_score"
    /\ probe' = <<probe[1], calculate_confidence_score(probe[1].window)>>
    /\ lastOp' = "calculate_confidence_score"
    /\ UNCHANGED <<retryVars, storeVars>>
    /\ NoVerdict /\ NoReport /\ NoRead /\ NoAgentResult
    /\ UNCHANGED <<nowSec, flag, advances, garbled, closedSeen>>

\* determine_series applied to the drawn pair of scores.
Series ==
    /\ Len(probe) = 1 /\ probe[1].fn = "determine_series"
    /\ probe' = <<probe[1], determine_series(probe[1].confidence_score,
                                             probe[1].correlation_strength)>>
    /\ lastOp' = "determine_series"
    /\ UNCHANGED <<retryVars, storeVars>>
    /\ NoVerdict /\ NoReport /\ NoRead /\ NoAgentResult
    /\ UNCHANGED <<nowSec, flag, advances, garbled, closedSeen>>

ScoreNext == Score \/ Series

SpecScore == ScoreInit /\ [][ScoreNext]_vars

(***************************************************************************)
(* EpisodeValidator._validate_sections                                     *)
(***************************************************************************)
REQUIRED_SECTIONS == <<"## What changed", "## Why it matters", "## Benchmarks (summary)",
                       "## Next steps", "## Links & artifacts">>
Range(s) == {s[i] : i \in 1..Len(s)}

\* Longest body drawn, in lines.
MaxLines == 6
\* A line is its text and whether blanks surround it.
BodyLines ==
    {[pad |-> FALSE, text |-> h] : h \in Range(REQUIRED_SECTIONS)}
    \cup {[pad |-> TRUE, text |-> "## What changed"], [pad |-> FALSE, text |-> "prose"]}
\* content.split('\n') of the bodies drawn.
Bodies == UNION {[1..n -> BodyLines] : n \in 0..MaxLines}

\* line.strip()
strip(line) == line.text

\* The required headings among the stripped lines, in the order of the body.
found_sections(lines) ==
    SelectSeq([i \in 1..Len(lines) |-> strip(lines[i])],
              LAMBDA l : l \in Range(REQUIRED_SECTIONS))
missing_sections(lines) == Range(REQUIRED_SECTIONS) \ Range(found_sections(lines))

OrderViolation_Never(lines) == FALSE

\* for expected, actual in zip(expected_order, actual_order): the first pair
\* that differs is reported.
OrderViolation(lines) ==
    \E i \in 1..Len(REQUIRED_SECTIONS) :
        i <= Len(found_sections(lines)) /\ REQUIRED_SECTIONS[i] # found_sections(lines)[i]

\* The errors _validate_sections appends.
validate_sections(lines) ==
    (IF missing_sections(lines) # {} THEN <<"Missing required sections">> ELSE <<>>)
    \o (IF OrderViolation(lines) THEN <<"Section order violation">> ELSE <<>>)

SectionsInit == RetryInit /\ GateStart /\ probe \in {<<lines>> : lines \in Bodies}

\* _validate_sections applied to the drawn body.
ValidateSections ==
    /\ Len(probe) = 1
    /\ probe' = <<probe[1], validate_sections(probe[1])>>
    /\ lastOp' = "_validate_sections"
    /\ UNCHANGED <<retryVars, storeVars>>
    /\ NoVerdict /\ NoReport /\ NoRead /\ NoAgentResult
    /\ UNCHANGED <<nowSec, flag, advances, garbled, closedSeen>>

SectionsNext == ValidateSections

SpecSections == SectionsInit /\ [][SectionsNext]_vars

(***************************************************************************)
(* The episodes table: generate_episode runs side by side, publish_episode *)
(***************************************************************************)
\* The generate_episode runs, one per concurrent pipeline or council command.
Runs == 1..NumRuns

\* (confidence_score, correlation_strength) pairs calculate_confidence_score
\* gives: the score is never above the strength.
EpisodeScores ==
    {[confidence_score |-> <<50, 100>>, correlation_strength |-> <<70, 100>>],
     [confidence_score |-> <<65, 100>>, correlation_strength |-> <<70, 100>>],
     [confidence_score |-> <<80, 100>>, correlation_strength |-> <<90, 100>>]}

\* datetime.now(): every start of a run and every publish call is later than
\* the ones before it.
Timestamp == Cardinality({r \in Runs : runs[r].pc # "idle"}) + Len(deploys) + 1

\* f"../Banterblogs/banterblogs-nextjs/posts/{series}/ep-{episode_num:03d}.md",
\* kept as the two parts that vary; <<>> is the empty path.
episode_path(series, episode_num) == <<series, episode_num>>
\* path LIKE '%/{series}/ep-%'
PathInSeries(path, series) == path # <<>> /\ path[1] = series

SetMax(S) == CHOOSE x \in S : \A y \in S : y <= x

\* SELECT COALESCE(MAX(episode), 0) + 1 FROM episodes WHERE path LIKE pattern
get_next_episode_number(rows, series) ==
    LET numbers == {rows[i].episode :
                       i \in {j \in 1..Len(rows) : PathInSeries(rows[j].path, series)}}
    IN  (IF numbers = {} THEN 0 ELSE SetMax(numbers)) + 1

\* "published" if confidence_score >= 0.6 else "draft"
episode_status(confidence_score) ==
    IF FLeq(<<6, 10>>, confidence_score) THEN "published" ELSE "draft"

\* generate_episode up to determine_series: the run's start time and scores.
CouncilStart(r, sc) ==
    /\ runs[r].pc = "idle"
    /\ runs' = [runs EXCEPT ![r] =
                  [pc |-> "numbering", ts |-> Timestamp,
                   confidence_score |-> sc.confidence_score,
                   correlation_strength |-> sc.correlation_strength,
                   series |-> determine_series(sc.confidence_score, sc.correlation_strength),
                   episode_num |-> 0]]
    /\ UNCHANGED <<episodes, files, deploys>>
    /\ UNCHANGED <<retryVars, flagVars>>

\* episode_num = self.clickhouse.get_next_episode_number(series)
CouncilNumber(r) ==
    /\ runs[r].pc = "numbering"
    /\ runs' = [runs EXCEPT ![r].pc = "saving",
                            ![r].episode_num = get_next_episode_number(episodes, runs[r].series)]
    /\ UNCHANGED <<episodes, files, deploys>>
    /\ UNCHANGED <<retryVars, flagVars>>

\* save_episode: the file of that series and number is opened with 'w'.
CouncilSave(r) ==
    /\ runs[r].pc = "saving"
    /\ LET path == episode_path(runs[r].series, runs[r].episode_num)
       IN  files' = {f \in files : f[1] # path} \cup {<<path, r>>}
    /\ runs' = [runs EXCEPT ![r].pc = "inserting"]
    /\ UNCHANGED <<episodes, deploys>>
    /\ UNCHANGED <<retryVars, flagVars>>

\* insert_episode(episode_data)
CouncilInsert(r) ==
    /\ runs[r].pc = "inserting"
    /\ episodes' = Append(episodes,
                          [ts |-> runs[r].ts, episode |-> runs[r].episode_num, run |-> r,
                           lang |-> "en",
                           path |-> episode_path(runs[r].series, runs[r].episode_num),
                           status |-> episode_status(runs[r].confidence_score)])
    /\ runs' = [runs EXCEPT ![r].pc = "done"]
    /\ UNCHANGED <<files, deploys>>
    /\ UNCHANGED <<retryVars, flagVars>>

\* get_episode_to_publish(None): the row of status 'draft' and lang 'en' with
\* the latest ts; 0 when there is none.
get_episode_to_publish(rows) ==
    LET drafts == {i \in 1..Len(rows) : rows[i].status = "draft" /\ rows[i].lang = "en"}
    IN  IF drafts = {} THEN 0
        ELSE CHOOSE i \in drafts : \A j \in drafts : rows[j].ts <= rows[i].ts

\* The row update_episode_status inserts: the status record of that episode
\* number, with an empty path.
StatusRow(episode_num, status, ts) ==
    [ts |-> ts, episode |-> episode_num, run |-> 0, lang |-> "en", path |-> <<>>,
     status |-> status]

\* The council run whose row was inserted last; 0 when there is none.
LastGenerated ==
    LET own == {i \in 1..Len(episodes) : episodes[i].run # 0}
    IN  IF own = {} THEN 0 ELSE episodes[SetMax(own)].run

\* One publish_episode() call without an episode number.
PublishLatest(in) ==
    /\ Len(deploys) < MaxPublishes
    /\ LET row == get_episode_to_publish(episodes)
           res == publish_episode(in)
       IN  /\ in.episode = IF row = 0 THEN "none" ELSE episodes[row].status
           /\ (row # 0 /\ in.validOk) => \E f \in files : f[1] = episodes[row].path
           /\ episodes' = IF "published" \in res.effects
                          THEN Append(episodes,
                                      StatusRow(episodes[row].episode, "published", Timestamp))
                          ELSE episodes
           /\ deploys' = Append(deploys,
                                [row |-> row, after |-> LastGenerated,
                                 generated |-> Cardinality({r \in Runs : runs[r].pc = "done"}),
                                 status |-> res.status, effects |-> res.effects])
    /\ UNCHANGED <<files, runs>>
    /\ UNCHANGED <<retryVars, flagVars>>

EpisodesNext ==
    \/ \E r \in Runs, sc \in EpisodeScores : CouncilStart(r, sc)
    \/ \E r \in Runs : CouncilNumber(r)
    \/ \E r \in Runs : CouncilSave(r)
    \/ \E r \in Runs : CouncilInsert(r)
    \/ \E in \in PublishInputs : PublishLatest(in)

SpecEpisodes == Init /\ [][EpisodesNext]_vars

(***************************************************************************)
(* Properties                                                              *)
(***************************************************************************)
Finished(c) == pc[c] = "done"
Invocations(c) == Len(outcomes[c])
FirstOutcome(c) == outcomes[c][1]
LastOutcome(c) == outcomes[c][Len(outcomes[c])]
EveryAttemptRetryable(c) ==
    /\ Invocations(c) >= 1
    /\ \A i \in 1..Invocations(c) : IsRetryable(outcomes[c][i])
EntriesOf(c) == {e \in dlq : e.data = c}

\* C1: after every completed gate evaluation whose verdict is not valid or
\* degraded (the "error" of a failed commit lookup included), and whose status
\* file operations met no I/O error, the flag file is absent and is_watcher_ok()
\* is false.
C1_FailingCheckClearsFlag ==
    (/\ lastOp \in {"watcher", "pipeline"}
     /\ verdict \notin PassVerdicts \cup {"none"}
     /\ ~fsFault)
    => (flag = <<>> /\ ~is_watcher_ok(flag, nowSec))

\* C2: a pipeline run whose gate evaluation returned valid or degraded does not
\* stop at the gate: it goes on to call the ingest stage.
C2_PassingGateContinues ==
    (lastOp = "pipeline" /\ verdict \in PassVerdicts)
    => (Len(stagesRun) >= 2 /\ stagesRun[2] = "ingest")

\* C3: a durable call whose every attempt raised a retryable error (and whose
\* DLQ writes were all persisted) invoked the operation exactly 3 times, raised
\* to its caller, and wrote exactly one DLQ entry, holding the final error.
C3_ExhaustedRetriesOneEntry ==
    (/\ Finished(1)
     /\ profile[1] \in Durable
     /\ EveryAttemptRetryable(1)
     /\ dropped[1] = 0)
    => (/\ Invocations(1) = 3
        /\ result[1] = "RetryError"
        /\ persisted[1] = 1
        /\ \A e \in EntriesOf(1) : e.error = LastOutcome(1))

\* C4: a durable call that failed with a retryable error on its first attempt
\* (or first two) and then succeeded returned the result and wrote nothing to the
\* dead letter queue.
C4_NoEntryWhenRetrySucceeds ==
    (/\ Finished(1)
     /\ profile[1] \in Durable
     /\ Invocations(1) >= 2
     /\ LastOutcome(1) = "ok")
    => (result[1] = "ok" /\ persisted[1] = 0 /\ dlq = {})

\* C5: a best-effort call whose first attempt failed with a retryable error
\* made a second attempt before it gave up.
C5_BestEffortSecondAttempt ==
    (/\ Finished(1)
     /\ profile[1] = "datadog"
     /\ IsRetryable(FirstOutcome(1)))
    => Invocations(1) >= 2

\* C6: a best-effort (datadog_retry) call in which the operation raised, whatever
\* the error and the attempt, returned None to its caller, and no write_to_dlq was
\* made: the queue holds no entry.
C6_BestEffortNeverRaises ==
    (/\ Finished(1)
     /\ profile[1] = "datadog"
     /\ \E i \in 1..Invocations(1) : outcomes[1][i] # "ok")
    => (/\ result[1] = "None"
        /\ persisted[1] = 0
        /\ dropped[1] = 0
        /\ dlq = {})

\* C6 is exercised: a datadog call whose only attempt raised returned None.
C6_Witness ==
    /\ Finished(1)
    /\ profile[1] = "datadog"
    /\ outcomes[1] = <<"ValueError">>
    /\ result[1] = "None"

\* C7: a durable call whose first attempt raised an error that is neither
\* ConnectionError nor TimeoutError invoked the operation exactly once, raised that
\* error to its caller, and made exactly one write_to_dlq call, whose entry (holding
\* that error) is the one entry of the call in the queue unless the sink could not
\* write it.
C7_NonRetryableFailsFast ==
    (/\ Finished(1)
     /\ profile[1] \in Durable
     /\ FirstOutcome(1) # "ok"
     /\ ~IsRetryable(FirstOutcome(1)))
    => (/\ Invocations(1) = 1
        /\ result[1] = FirstOutcome(1)
        /\ persisted[1] + dropped[1] = 1
        /\ dropped[1] = 0 =>
              /\ Cardinality(EntriesOf(1)) = 1
              /\ \A e \in EntriesOf(1) : e.error = FirstOutcome(1))

\* C7 is exercised: an api call raised ValueError after one attempt and left one
\* entry.
C7_Witness ==
    /\ Finished(1)
    /\ profile[1] = "api"
    /\ outcomes[1] = <<"ValueError">>
    /\ result[1] = "ValueError"
    /\ persisted[1] = 1
    /\ Cardinality(dlq) = 1

\* C8: as long as no replay has run, the queue holds as many entries as
\* write_to_dlq calls have persisted: no append overwrites another's entry.
C8_AppendsAllKept ==
    replays = 0 => Cardinality(dlq) = appended

\* C9: every entry replay_dlq has removed from the queue had a redelivery
\* attempted and reported successful.
C9_RemovedOnlyAfterRedelivery ==
    removed \subseteq redelivered

\* C10: when replay_dlq ends, `replayed` counts exactly the entries it removed;
\* every file counted as failed is still in the queue and is not among the
\* removed; and a replay without filter in which no entry failed (and during
\* which nothing was appended) leaves the queue empty and reports k succeeded,
\* 0 failed, k the number of entries the queue held when it started.
C10_ReplayCounts ==
    rpc = "done" =>
        /\ ReplayReport.succeeded = Cardinality(removed)
        /\ \A n \in failed : n \in Names(dlq) /\ n \notin Names(removed)
        /\ ReplayReport.succeeded + ReplayReport.failed <= Cardinality(snapshot)
        /\ (rfilter = "" /\ failed = {} /\ quiet) =>
              /\ dlq = {}
              /\ ReplayReport = [succeeded |-> Cardinality(snapshot), failed |-> 0]

\* C10 is exercised: a replay without filter removed both entries of the queue.
C10_Witness ==
    /\ rpc = "done"
    /\ rfilter = ""
    /\ quiet
    /\ Cardinality(snapshot) = 2
    /\ ReplayReport = [succeeded |-> 2, failed |-> 0]
    /\ dlq = {}

C12_OnlyPassingCheckWritesFlag ==
    [][(flag' # flag /\ flag' # <<>>)
         => (/\ lastOp' \in {"watcher", "pipeline"}
             /\ verdict' \in PassVerdicts
             /\ flag' = <<nowSec>>)]_vars

\* C12 is exercised: a flag written earlier was refreshed by a later evaluation
\* with verdict degraded.
C12_Witness ==
    /\ lastOp = "watcher"
    /\ verdict = "degraded"
    /\ nowSec > 0
    /\ flag = <<nowSec>>

\* C13: each reader returns True for a readable flag of age at most 1799 s and
\* False for one of age above 1800 s, and False when the flag is absent or
\* unreadable; and a reader that has returned False since the flag was last
\* touched does not return True.
C13_TtlWindow ==
    /\ \A r \in Readers :
          /\ (flag # <<>> /\ ~garbled /\ nowSec - flag[1] <= 1799)
                => ReaderResult(r, TRUE)
          /\ (flag # <<>> /\ ~garbled /\ nowSec - flag[1] > 1800)
                => ~ReaderResult(r, TRUE)
          /\ (flag = <<>> \/ garbled) => ~ReaderResult(r, TRUE)
    /\ (lastOp \in Readers /\ lastRead = "open") => lastOp \notin closedSeen
    /\ (lastOp = "council" /\ lastRead = "open")
          => "check_watcher_status" \notin closedSeen

\* C13 is exercised: both readers have returned False for a flag that is present,
\* readable and older than 1800 s.
C13_Witness ==
    /\ flag # <<>>
    /\ ~garbled
    /\ nowSec - flag[1] > 1800
    /\ closedSeen = Readers
    /\ lastOp \in Readers
    /\ lastRead = "closed"

\* C14: check_data_integrity returns the verdict of the ordered rule list for the
\* row counts and lag it got: no hearts rows gives missing_hearts (degraded when
\* allow_degraded); otherwise no packs rows gives missing_packs (degraded when
\* allow_degraded); otherwise a lag above both thresholds gives lag_exceeded;
\* otherwise valid. So valid needs both counts > 0, a lag of 1000 s (above the
\* hearts threshold only) gives valid, and degraded needs allow_degraded.
C14_OrderedRules ==
    probe # <<>> =>
        LET allow == probe[1].allow_degraded
            hearts_rows == probe[2].fresh[1]
            packs_rows == probe[2].fresh[2]
            lag == probe[2].fresh[3]
            status == probe[2].status
        IN  /\ hearts_rows = 0 =>
                  status = IF allow THEN "degraded" ELSE "missing_hearts"
            /\ (hearts_rows > 0 /\ packs_rows = 0) =>
                  status = IF allow THEN "degraded" ELSE "missing_packs"
            /\ (hearts_rows > 0 /\ packs_rows > 0) =>
                  status = IF lag > MaxHeartsLag /\ lag > MaxPacksLag
                           THEN "lag_exceeded" ELSE "valid"
            /\ status = "valid" => (hearts_rows > 0 /\ packs_rows > 0)
            /\ (hearts_rows > 0 /\ packs_rows > 0 /\ lag = 1000) => status = "valid"
            /\ status = "degraded" => allow

\* C14 is exercised: both feeds have rows, the lag is 1000 s, above the hearts
\* threshold and below the packs threshold, and the verdict is valid.
C14_Witness ==
    /\ probe # <<>>
    /\ probe[2].fresh[1] > 0
    /\ probe[2].fresh[2] > 0
    /\ probe[2].fresh[3] = 1000
    /\ probe[2].status = "valid"

\* C15: the lag check_data_integrity classifies is now minus the later of the
\* two feeds' last-seen timestamps, and it is the sentinel 999999 only when a
\* last-seen timestamp is absent (or the query failed).
C15_LagFromLatestFeed ==
    probe # <<>> =>
        LET in == probe[1]
            lag == probe[2].fresh[3]
            present == in.queryOk /\ in.hearts.last_ts # <<>> /\ in.packs.last_ts # <<>>
        IN  /\ present => lag = in.now - Max(in.hearts.last_ts[1], in.packs.last_ts[1])
            /\ lag = LagSentinel => ~present

\* C16: a pipeline run whose gate evaluation gave a verdict other than valid or
\* degraded called the watcher stage and no other, printed a report holding the
\* watcher entry alone, and exited with status 1.
C16_FailedGateStopsRun ==
    (lastOp = "pipeline" /\ verdict \notin PassVerdicts \cup {"none"})
    => (/\ stagesRun = <<"watcher">>
        /\ report = <<"watcher">>
        /\ emitted
        /\ exitCode = 1)

\* C16 is exercised: a pipeline run stopped after a missing_hearts verdict.
C16_Witness ==
    /\ lastOp = "pipeline"
    /\ verdict = "missing_hearts"
    /\ stagesRun = <<"watcher">>
    /\ emitted
    /\ exitCode = 1

StageOrder == <<"watcher", "ingest", "collect", "council", "publish", "translate">>
IsPrefix(s, t) == Len(s) <= Len(t) /\ \A i \in 1..Len(s) : s[i] = t[i]

\* Whether the i-th stage call of the run failed in a way that ends the run: the
\* watcher without a valid or degraded status, council or publish without
\* "success".
CriticalFailure(i) ==
    \/ stagesRun[i] = "watcher" /\ stageResults[i] \notin PassVerdicts
    \/ stagesRun[i] \in {"council", "publish"} /\ stageResults[i] # "success"

C18_ReportAlwaysEmitted ==
    lastOp = "pipeline" => (emitted /\ report = stagesRun)

\* Whether the council's flag check finds the gate closed: the flag is absent,
\* unreadable, or older than 30 minutes.
GateClosedForCouncil ==
    \/ flag = <<>>
    \/ garbled
    \/ nowSec - flag[1] > TtlMinutes * 60

\* C19: a generate_episode run returned "blocked" exactly when, at its check, the
\* flag was absent, unreadable or older than 1800 s, and a blocked run saved no
\* episode file and inserted no episode record.
C19_CouncilBlockedWhenGateClosed ==
    /\ lastOp = "council" =>
          /\ (agentStatus = "blocked") = GateClosedForCouncil
          /\ agentStatus = "blocked" => effects = {}
    /\ lastOp = "council_elsewhere" => (agentStatus = "blocked" /\ effects = {})

\* C19 is exercised: a council run found a readable flag older than 1800 s and
\* was blocked.
C19_Witness ==
    /\ lastOp = "council"
    /\ flag # <<>>
    /\ ~garbled
    /\ nowSec - flag[1] > 1800
    /\ agentStatus = "blocked"
    /\ effects = {}

\* C20: a publish_episode run made while the flag is absent or older than
\* 1800 s deployed nothing and recorded no episode as published.
C20_PublishBlockedWhenGateClosed ==
    (lastOp = "publish" /\ (flag = <<>> \/ nowSec - flag[1] > TtlMinutes * 60))
    => ("deployed" \notin effects /\ "published" \notin effects)

\* C21: a generate_episode or publish_episode run that did all of its work (the
\* episode saved and its record inserted; the episode deployed and recorded as
\* published) returned status "success", whether or not its telemetry calls
\* raised.
C21_TelemetryNeverChangesOutcome ==
    /\ (lastOp = "council" /\ {"saved", "inserted"} \subseteq effects)
          => agentStatus = "success"
    /\ (lastOp = "publish" /\ {"deployed", "published"} \subseteq effects)
          => agentStatus = "success"

\* C28: in every state the two readers give the same answer for the flag file
\* /tmp/watcher_ok.
C28_ReadersAgree ==
    ReaderResult("is_watcher_ok", TRUE) = ReaderResult("check_watcher_status", TRUE)

\* The window and the result of the last calculate_confidence_score call.
ScoredWindow == probe[1].window
ScoreResult == probe[2]
Scored == lastOp = "calculate_confidence_score"

\* C22: for every non-empty window whose points all carry a day, the confidence
\* score is the least of completeness, correlation strength, recency (at least
\* 0.5) and data quality, and lies between 0 and 1.
C22_ScoreIsLeastComponent ==
    (Scored /\ ScoredWindow # <<>> /\ ~ScoreRaises(ScoredWindow)) =>
        LET w == ScoredWindow
            score == ScoreResult.confidence_score
            age == Today - most_recent(w)
            parts == {IF Len(w) >= 7 THEN One ELSE <<Len(w), 7>>,
                      correlation_strength(w),
                      IF 2 * (7 - age) > 7 THEN <<7 - age, 7>> ELSE Half,
                      data_quality(w)}
        IN  /\ \A part \in parts : FLeq(score, part)
            /\ \E part \in parts : FEq(score, part)
            /\ FLeq(Zero, score) /\ FLeq(score, One)

\* A week-old window of at least four days in which recency, at its floor of
\* 0.5, is strictly the least component.
C22_Witness ==
    /\ Scored /\ ScoredWindow # <<>> /\ ~ScoreRaises(ScoredWindow)
    /\ FEq(ScoreResult.confidence_score, Half)
    /\ days_old(ScoredWindow) > 7
    /\ FLess(Half, completeness(ScoredWindow))
    /\ FLess(Half, correlation_strength(ScoredWindow))
    /\ FLess(Half, data_quality(ScoredWindow))

\* C23: calculate_confidence_score never raises, and returns exactly (0.0, 0.0)
\* for an empty window and for a window with a point that has no day.
C23_ScoreNeverRaises ==
    Scored =>
        /\ ~ScoreResult.raised
        /\ (ScoredWindow = <<>> \/ \E i \in 1..Len(ScoredWindow) : ScoredWindow[i].day = <<>>)
              => (ScoreResult.confidence_score = <<0, 1>>
                  /\ ScoreResult.correlation_strength = <<0, 1>>)

\* A window of several points, with rows and correlations, whose first point
\* has no day.
C23_Witness ==
    /\ Scored /\ Len(ScoredWindow) >= 2
    /\ ScoredWindow[1].day = <<>>
    /\ ScoredWindow[2].correlation = <<10>>
    /\ ScoredWindow[2].hearts_rows > 0
    /\ ScoreResult.confidence_score = <<0, 1>>

\* C24: determine_series answers "chimera" exactly when the confidence score is
\* at least 0.7 and the correlation strength at least 0.6, and "banterpacks"
\* otherwise.
C24_SeriesThresholds ==
    lastOp = "determine_series" =>
        /\ probe[2] \in {"chimera", "banterpacks"}
        /\ probe[2] = "chimera" <=>
              (probe[1].confidence_score[1] >= 70 /\ probe[1].correlation_strength[1] >= 60)

\* Both scores exactly on their thresholds.
C24_Witness ==
    /\ lastOp = "determine_series"
    /\ probe[1].confidence_score = <<70, 100>>
    /\ probe[1].correlation_strength = <<60, 100>>
    /\ probe[2] = "chimera"

\* The body and the errors of the last _validate_sections call.
Validated == lastOp = "_validate_sections"
HeadingAt(lines, h) == {i \in 1..Len(lines) : lines[i].text = h}
FirstAt(lines, h) == CHOOSE i \in HeadingAt(lines, h) : \A j \in HeadingAt(lines, h) : i <= j

\* C26: a body is accepted only if each of the five headings occurs and they
\* occur in the required order; a body that holds the five headings once each,
\* in order, raises no section error.
C26_SectionsPresentInOrder ==
    Validated =>
        LET lines == probe[1]
            errors == probe[2]
            n == Len(REQUIRED_SECTIONS)
        IN  /\ errors = <<>> =>
                /\ \A k \in 1..n : HeadingAt(lines, REQUIRED_SECTIONS[k]) # {}
                /\ \A k \in 1..(n - 1) :
                      FirstAt(lines, REQUIRED_SECTIONS[k]) < FirstAt(lines, REQUIRED_SECTIONS[k + 1])
            /\ ( /\ \A k \in 1..n : Cardinality(HeadingAt(lines, REQUIRED_SECTIONS[k])) = 1
                 /\ \A k \in 1..(n - 1) :
                      FirstAt(lines, REQUIRED_SECTIONS[k]) < FirstAt(lines, REQUIRED_SECTIONS[k + 1]) )
                  => errors = <<>>

\* An accepted body: the five headings in order, the first one indented, and a
\* line of prose among them.
C26_Witness ==
    /\ Validated /\ probe[2] = <<>>
    /\ \E i \in 1..Len(probe[1]) : probe[1][i].pad
    /\ \E i \in 1..Len(probe[1]) : probe[1][i].text = "prose"

\* C27: what a publish call deploys after a council run is the episode that run
\* generated, and its confidence score is at least 0.6.
C27_PublishesTheScoredEpisode ==
    \A k \in 1..Len(deploys) :
        (deploys[k].after # 0 /\ "deployed" \in deploys[k].effects) =>
            /\ episodes[deploys[k].row].run = deploys[k].after
            /\ FLeq(<<6, 10>>, runs[deploys[k].after].confidence_score)

\* C29: a publish call made after a successful publication, with no episode
\* generated in between, does not select the draft that was published.
C29_DraftPublishedOnce ==
    \A i \in 1..Len(deploys), j \in 1..Len(deploys) :
        (i < j /\ "published" \in deploys[i].effects
               /\ deploys[i].generated = deploys[j].generated)
            => deploys[j].row # deploys[i].row

\* C30: two generate_episode runs of the same series never hold the same
\* episode number.
C30_EpisodeNumbersDistinct ==
    \A r1 \in Runs, r2 \in Runs :
        (r1 # r2 /\ runs[r1].episode_num # 0 /\ runs[r2].episode_num # 0
               /\ runs[r1].series = runs[r2].series)
            => runs[r1].episode_num # runs[r2].episode_num

\* Whether the pipeline run called that stage and the call succeeded: the
\* watcher with a valid or degraded status, another stage with "success".
StageSucceeded(stage) ==
    \E i \in 1..Len(stagesRun) :
        /\ stagesRun[i] = stage
        /\ IF stage = "watcher" THEN stageResults[i] \in PassVerdicts
                                ELSE stageResults[i] = "success"

====
